---- MODULE Spec2Model ----
(***************************************************************************)
(* Sparse Merkle tree of iorveth/sparse-schmerkle-tree (src/src/lib.rs,    *)
(* src/src/hash.rs, src/src/error.rs).                                     *)
(*                                                                         *)
(* A tree is a root hash and a cache from a node's hash to the pair of its *)
(* children's hashes.  The model keeps the code's algorithms and scales    *)
(* the width of H256 down: H256 is [u8; 32] in the source and              *)
(* HashBytes bytes of ByteBits bits here, so the tree height               *)
(* (size_of::<H256>() * 8 in the source) is HashBytes * ByteBits.          *)
(*                                                                         *)
(* A hash is one of                                                        *)
(*   <<"bytes", b>>        a byte array given by the caller (keys, values) *)
(*   <<"digest", l, r>>    the value merge(l, r) returns.                  *)
(* merge feeds lhs then rhs to DefaultHasher and fills the 32 bytes it     *)
(* returns from the 64-bit digest alone (the digest, then three copies of  *)
(* the digest of the digest).  The digest is modelled as collision-free:   *)
(* merge is deterministic, two different pairs give two different hashes,  *)
(* and no hash merge returns is ZERO_HASH or another byte array a caller   *)
(* wrote down without calling merge.  A caller may still hand in a value   *)
(* that merge returned (Values holds one).  Collisions of the 64-bit       *)
(* digest, which exist by counting, are outside this model.                *)
(*                                                                         *)
(* Four specifications share the variables:                                *)
(*   Spec           compute_default_tree, then insert, get and verify      *)
(*   SpecInsertGet  the same without verify                                *)
(*   SpecNew        new(root, cache) from complete and incomplete caches,  *)
(*                  then insert, get and verify                            *)
(*   SpecPath       two PathIter structs, stepped by next()                *)
(***************************************************************************)
EXTENDS Integers, Sequences, FiniteSets, TLC

(* ------------------------------ bounds -------------------------------- *)
\* bytes in an H256 (32 in the source, lib.rs:9)
HashBytes == 1
\* bits in a byte (8 in the source)
ByteBits == 2
\* inserts made into one tree
MaxInserts == 2

(* --------------------------- lib.rs: types ---------------------------- *)
MaxByte == 2 ^ ByteBits - 1

\* pub const ZERO_HASH: H256 = [0u8; 32];
ZERO_HASH == <<"bytes", [i \in 1..HashBytes |-> 0]>>

\* const TREE_HEIGHT: usize = std::mem::size_of::<H256>() * 8;
TREE_HEIGHT == HashBytes * ByteBits

\* const HIGHEST_BIT_POS: u8 = 7;
HIGHEST_BIT_POS == ByteBits - 1

\* pub enum Branch { Left = 0, Right = 1 }
Left == "Left"
Right == "Right"
Branch == {Left, Right}

\* Result and Option values
Ok(x) == <<"Ok", x>>
Err(e) == <<"Err", e>>
MissingKey(h) == <<"MissingKey", h>>
Some(x) == <<"Some", x>>
None == <<"None">>
IsOk(r) == r[1] = "Ok"
IsErr(r) == r[1] = "Err"

(* ------------------------------ hash.rs ------------------------------- *)
\* pub fn merge(lhs: &H256, rhs: &H256) -> H256
\* hasher.write(lhs); hasher.write(rhs); every byte returned is computed from
\* hasher.finish(), the digest of lhs followed by rhs
merge(lhs, rhs) == <<"digest", lhs, rhs>>

(* --------------------------- lib.rs: PathIter ------------------------- *)
\* impl Iterator for PathIter: next() from the state (byte_pos, bit_pos),
\* collected until it returns None.
RECURSIVE PathIterFrom(_, _, _)
PathIterFrom(path, byte_pos, bit_pos) ==
    IF byte_pos + 1 \in DOMAIN path
    THEN LET byte == path[byte_pos + 1]
             branch == IF (byte \div (2 ^ (HIGHEST_BIT_POS - bit_pos))) % 2 = 1
                       THEN Right
                       ELSE Left
         IN  IF bit_pos = HIGHEST_BIT_POS
             THEN <<branch>> \o PathIterFrom(path, byte_pos + 1, 0)
             ELSE <<branch>> \o PathIterFrom(path, byte_pos, bit_pos + 1)
    ELSE <<>>

\* PathIter::from(key), iterated to its end
PathIter(key) == PathIterFrom(key[2], 0, 0)

\* impl From<&H256> for PathIter: the struct from(path) returns
PathIter_from(path) == [path |-> path[2], bit_pos |-> 0, byte_pos |-> 0]

\* PathIter_next yielding Right for a 0 bit and Left for a 1 bit
PathIter_next_inverted(it) ==
    IF it.byte_pos + 1 \in DOMAIN it.path
    THEN LET byte == it.path[it.byte_pos + 1]
             branch == IF (byte \div (2 ^ (HIGHEST_BIT_POS - it.bit_pos))) % 2 = 1
                       THEN Left
                       ELSE Right
         IN  [item |-> Some(branch),
              it |-> IF it.bit_pos = HIGHEST_BIT_POS
                     THEN [it EXCEPT !.byte_pos = @ + 1, !.bit_pos = 0]
                     ELSE [it EXCEPT !.bit_pos = @ + 1]]
    ELSE [item |-> None, it |-> it]

\* fn next(&mut self) -> Option<Branch>: the item returned and the struct after
\* the call (byte >> n is byte \div 2^n)
PathIter_next(it) ==
    IF it.byte_pos + 1 \in DOMAIN it.path
    THEN LET byte == it.path[it.byte_pos + 1]
             branch == IF (byte \div (2 ^ (HIGHEST_BIT_POS - it.bit_pos))) % 2 = 1
                       THEN Right
                       ELSE Left
         IN  [item |-> Some(branch),
              it |-> IF it.bit_pos = HIGHEST_BIT_POS
                     THEN [it EXCEPT !.byte_pos = @ + 1, !.bit_pos = 0]
                     ELSE [it EXCEPT !.bit_pos = @ + 1]]
    ELSE [item |-> None, it |-> it]

(* ------------------------ lib.rs: TreeCache --------------------------- *)
\* pub type TreeCache = HashMap<H256, (H256, H256)>; Default::default()
EmptyCache == [h \in {} |-> <<ZERO_HASH, ZERO_HASH>>]

\* HashMap::insert: adds the entry, or replaces the pair stored under `hash`
CacheInsert(cache, hash, pair) ==
    [h \in DOMAIN cache \cup {hash} |-> IF h = hash THEN pair ELSE cache[h]]

(* ------------------------------ lib.rs: new --------------------------- *)
\* pub fn new(root: H256, cache: TreeCache) -> SparseMerkleTree
new(r, c) == [root |-> r, cache |-> c]

(* --------------------- lib.rs: compute_default_tree ------------------- *)
\* default_step recording the parent itself as the right child
default_step_self_child(t) ==
    LET parent == merge(t.root, t.root)
    IN  [root |-> parent, cache |-> CacheInsert(t.cache, parent, <<t.root, parent>>)]

\* one turn of `for _ in 0..256`
default_step(t) ==
    LET parent == merge(t.root, t.root)
    IN  [root |-> parent, cache |-> CacheInsert(t.cache, parent, <<t.root, t.root>>)]

RECURSIVE default_loop(_, _)
default_loop(n, t) == IF n = 0 THEN t ELSE default_loop(n - 1, default_step(t))

\* pub fn compute_default_tree() -> SparseMerkleTree
\* (the loop bound 256 of the source is the tree height)
compute_default_tree == default_loop(TREE_HEIGHT, [root |-> ZERO_HASH, cache |-> EmptyCache])

(* --------------------------- lib.rs: insert --------------------------- *)
\* insert_sibling pushing the child the branch selects
insert_sibling_taken(parent, branch) == IF branch = Left THEN parent[1] ELSE parent[2]

\* insert_child going down to the left child in both arms
insert_child_left_only(parent, branch) == parent[1]

\* the child the branch selects and the other one, of parent = (left, right)
insert_child(parent, branch) == IF branch = Left THEN parent[1] ELSE parent[2]
insert_sibling(parent, branch) == IF branch = Left THEN parent[2] ELSE parent[1]

\* insert_descent whose Right arm pushes no sibling
RECURSIVE insert_descent_left_pushes(_, _, _, _, _)
insert_descent_left_pushes(cache, node, path, i, siblings) ==
    IF i > Len(path)
    THEN [ok |-> TRUE, node |-> node, siblings |-> siblings]
    ELSE IF node \notin DOMAIN cache
         THEN [ok |-> FALSE, node |-> node, siblings |-> siblings]
         ELSE LET parent == cache[node]
              IN  insert_descent_left_pushes(
                      cache, insert_child(parent, path[i]), path, i + 1,
                      IF path[i] = Left
                      THEN Append(siblings, insert_sibling(parent, path[i]))
                      ELSE siblings)

\* first loop of insert: from `node`, branches path[i..]; siblings pushed in order
RECURSIVE insert_descent(_, _, _, _, _)
insert_descent(cache, node, path, i, siblings) ==
    IF i > Len(path)
    THEN [ok |-> TRUE, node |-> node, siblings |-> siblings]
    ELSE IF node \notin DOMAIN cache
         THEN [ok |-> FALSE, node |-> node, siblings |-> siblings]
         ELSE LET parent == cache[node]
              IN  insert_descent(cache, insert_child(parent, path[i]), path, i + 1,
                                 Append(siblings, insert_sibling(parent, path[i])))

\* insert_ascent_step whose Right arm does not record the new parent
insert_ascent_step_unrecorded(cache, node, branch, sibling) ==
    IF branch = Left
    THEN LET new_parent == merge(node, sibling)
         IN  [cache |-> CacheInsert(cache, new_parent, <<node, sibling>>), node |-> new_parent]
    ELSE [cache |-> cache, node |-> merge(sibling, node)]

\* insert_ascent_step with the Right arm written like the Left arm
insert_ascent_step_same_side(cache, node, branch, sibling) ==
    LET new_parent == merge(node, sibling)
    IN  [cache |-> CacheInsert(cache, new_parent, <<node, sibling>>), node |-> new_parent]

\* insert_ascent_step whose Right arm records the pair in the Left arm's order
insert_ascent_step_swapped_pair(cache, node, branch, sibling) ==
    IF branch = Left
    THEN LET new_parent == merge(node, sibling)
         IN  [cache |-> CacheInsert(cache, new_parent, <<node, sibling>>), node |-> new_parent]
    ELSE LET new_parent == merge(sibling, node)
         IN  [cache |-> CacheInsert(cache, new_parent, <<node, sibling>>), node |-> new_parent]

\* insert_ascent_step that drops the sibling's entry when it records the parent
insert_ascent_step_evicting(cache, node, branch, sibling) ==
    LET pair == IF branch = Left THEN <<node, sibling>> ELSE <<sibling, node>>
        new_parent == merge(pair[1], pair[2])
    IN  [cache |-> [h \in (DOMAIN cache \ {sibling}) \cup {new_parent} |->
                        IF h = new_parent THEN pair ELSE cache[h]],
         node |-> new_parent]

\* one turn of the second loop: merge the node with the popped sibling and
\* record the new parent in the cache
insert_ascent_step(cache, node, branch, sibling) ==
    IF branch = Left
    THEN LET new_parent == merge(node, sibling)
         IN  [cache |-> CacheInsert(cache, new_parent, <<node, sibling>>), node |-> new_parent]
    ELSE LET new_parent == merge(sibling, node)
         IN  [cache |-> CacheInsert(cache, new_parent, <<sibling, node>>), node |-> new_parent]

\* insert_pop taking the first element pushed (a queue, not a stack)
insert_pop_front(siblings) ==
    [sibling |-> siblings[1], rest |-> SubSeq(siblings, 2, Len(siblings))]

\* siblings.pop(): the last element pushed
insert_pop(siblings) ==
    [sibling |-> siblings[Len(siblings)], rest |-> SubSeq(siblings, 1, Len(siblings) - 1)]

\* second loop of insert: the branches in reverse, i = Len(path) down to 1
RECURSIVE insert_ascent(_, _, _, _, _)
insert_ascent(cache, node, path, i, siblings) ==
    IF i = 0
    THEN [panic |-> FALSE, cache |-> cache, node |-> node, siblings |-> siblings]
    ELSE IF siblings = <<>>
         THEN [panic |-> TRUE, cache |-> cache, node |-> node, siblings |-> siblings]
         ELSE LET p == insert_pop(siblings)
                  s == insert_ascent_step(cache, node, path[i], p.sibling)
              IN  insert_ascent(s.cache, s.node, path, i - 1, p.rest)

\* insert that runs its second loop over the siblings it has when a lookup
\* of the first loop fails, before it returns the error
insert_writing_on_error(t, key, value) ==
    LET path == PathIter(key)
        d == insert_descent(t.cache, t.root, path, 1, <<>>)
        a == insert_ascent(t.cache, value, path, Len(d.siblings), d.siblings)
    IN  IF ~d.ok
        THEN [root |-> a.node, cache |-> a.cache, res |-> Err(MissingKey(d.node)),
              pushed |-> d.siblings, left |-> a.siblings]
        ELSE IF a.panic
             THEN [root |-> t.root, cache |-> a.cache,
                   res |-> <<"Panic", "sibling should exsits">>,
                   pushed |-> d.siblings, left |-> a.siblings]
             ELSE [root |-> a.node, cache |-> a.cache, res |-> Ok(<<>>),
                   pushed |-> d.siblings, left |-> a.siblings]

\* pub fn insert(&mut self, key: &H256, value: H256) -> Result<()>
\* the tree after the call, its result, and the sibling stack left at the end
insert(t, key, value) ==
    LET path == PathIter(key)
        d == insert_descent(t.cache, t.root, path, 1, <<>>)
    IN  IF ~d.ok
        THEN [root |-> t.root, cache |-> t.cache, res |-> Err(MissingKey(d.node)),
              pushed |-> d.siblings, left |-> d.siblings]
        ELSE LET a == insert_ascent(t.cache, value, path, Len(path), d.siblings)
             IN  IF a.panic
                 THEN [root |-> t.root, cache |-> a.cache,
                       res |-> <<"Panic", "sibling should exsits">>,
                       pushed |-> d.siblings, left |-> a.siblings]
                 ELSE [root |-> a.node, cache |-> a.cache, res |-> Ok(<<>>),
                       pushed |-> d.siblings, left |-> a.siblings]

(* ----------------------------- lib.rs: get ---------------------------- *)
get_child(parent, branch) == IF branch = Left THEN parent[1] ELSE parent[2]

\* get_descent putting each branch in front of the path, not at its end
RECURSIVE get_descent_prepending(_, _, _, _, _)
get_descent_prepending(cache, node, branches, i, path) ==
    IF i > Len(branches)
    THEN [ok |-> TRUE, node |-> node, path |-> path]
    ELSE IF node \notin DOMAIN cache
         THEN [ok |-> FALSE, node |-> node, path |-> path]
         ELSE get_descent_prepending(cache, get_child(cache[node], branches[i]), branches,
                                     i + 1, <<branches[i]>> \o path)

RECURSIVE get_descent(_, _, _, _, _)
get_descent(cache, node, branches, i, path) ==
    IF i > Len(branches)
    THEN [ok |-> TRUE, node |-> node, path |-> path]
    ELSE IF node \notin DOMAIN cache
         THEN [ok |-> FALSE, node |-> node, path |-> path]
         ELSE get_descent(cache, get_child(cache[node], branches[i]), branches, i + 1,
                          Append(path, branches[i]))

\* get_result without the test for ZERO_HASH
get_result_always_some(node, path) == Ok(<<node, Some(path)>>)

\* the tail of get: the path is returned only for a non-zero leaf
get_result(node, path) ==
    IF node # ZERO_HASH THEN Ok(<<node, Some(path)>>) ELSE Ok(<<node, None>>)

\* get whose error carries the root, not the hash that was looked up
get_reporting_root(t, key) ==
    LET d == get_descent(t.cache, t.root, PathIter(key), 1, <<>>)
    IN  IF ~d.ok THEN Err(MissingKey(t.root)) ELSE get_result(d.node, d.path)

\* pub fn get(&self, key: &H256) -> Result<(&H256, Option<Vec<Branch>>)>
get(t, key) ==
    LET d == get_descent(t.cache, t.root, PathIter(key), 1, <<>>)
    IN  IF ~d.ok THEN Err(MissingKey(d.node)) ELSE get_result(d.node, d.path)

(* ------------------------- lib.rs: merkle_proof ----------------------- *)
proof_child(parent, branch) == IF branch = Left THEN parent[1] ELSE parent[2]
proof_sibling(parent, branch) == IF branch = Left THEN parent[2] ELSE parent[1]

RECURSIVE proof_descent(_, _, _, _, _)
proof_descent(cache, node, path, i, proof) ==
    IF i > Len(path)
    THEN Ok(proof)
    ELSE IF node \notin DOMAIN cache
         THEN Err(MissingKey(node))
         ELSE LET parent == cache[node]
              IN  proof_descent(cache, proof_child(parent, path[i]), path, i + 1,
                                Append(proof, proof_sibling(parent, path[i])))

\* fn merkle_proof(&self, path: &[Branch]) -> Result<Vec<H256>>
merkle_proof(t, path) == proof_descent(t.cache, t.root, path, 1, <<>>)

(* ---------------------------- lib.rs: verify -------------------------- *)
\* one turn of the fold: the node merged with the sibling on the branch's side
verify_step(node, branch, sibling) ==
    IF branch = Left THEN merge(node, sibling) ELSE merge(sibling, node)

\* verify_index without the - 1
verify_index_off_by_one(i) == TREE_HEIGHT - i + 1

\* proof.get(TREE_HEIGHT - i - 1), as a 1-based index into proof
verify_index(i) == TREE_HEIGHT - i - 1 + 1

\* the i-th turn (i from 0) of `for (i, branch) in path.into_iter().rev().enumerate()`
RECURSIVE verify_fold(_, _, _, _, _)
verify_fold(root, node, path, proof, i) ==
    IF i = Len(path)
    THEN Ok(root = node)
    ELSE IF verify_index(i) \notin DOMAIN proof
         THEN Ok(FALSE)
         ELSE verify_fold(root,
                          verify_step(node, path[Len(path) - i], proof[verify_index(i)]),
                          path, proof, i + 1)

\* verify_checked without the length test
verify_checked_no_length(root, value, path, proof) == verify_fold(root, value, path, proof, 0)

\* the length test on the proof
verify_checked(root, value, path, proof) ==
    IF Len(proof) # TREE_HEIGHT THEN Ok(FALSE) ELSE verify_fold(root, value, path, proof, 0)

\* verify folding from the leaf the descent reached, not from the value handed in
verify_from_leaf(t, value, path) ==
    LET p == merkle_proof(t, path)
    IN  IF IsErr(p) THEN p
        ELSE verify_checked(t.root, get_descent(t.cache, t.root, path, 1, <<>>).node, path, p[2])

\* verify that takes ZERO_HASH for no value at all and returns false for it
verify_rejecting_zero(t, value, path) ==
    LET p == merkle_proof(t, path)
    IN  IF IsErr(p) THEN p
        ELSE IF value = ZERO_HASH THEN Ok(FALSE)
        ELSE verify_checked(t.root, value, path, p[2])

\* pub fn verify(&self, value: &H256, path: &[Branch]) -> Result<bool>
verify(t, value, path) ==
    LET p == merkle_proof(t, path)
    IN  IF IsErr(p) THEN p ELSE verify_checked(t.root, value, path, p[2])

(* --------------------------- the state machine ------------------------ *)
VARIABLES
    root,       \* SparseMerkleTree.root
    cache,      \* SparseMerkleTree.cache
    written,    \* history: the value of the latest Ok insert of each key (ZERO_HASH: none)
    targeted,   \* history: the keys an insert into this tree was called with
    replaced,   \* history: the <<key, value>> pairs a later insert overwrote
    ninserts,   \* history: the inserts made into this tree
    ret,        \* the latest call, its arguments and what it returned
    iter,       \* two PathIter structs, "a" and "b"
    yielded     \* history: the items next() returned to each of the two so far

vars == <<root, cache, written, targeted, replaced, ninserts, ret, iter, yielded>>

tree == [root |-> root, cache |-> cache]

\* the byte array whose last byte is `last` and whose other bytes are `fill`
Bytes(fill, last) == <<"bytes", [i \in 1..HashBytes |-> IF i = HashBytes THEN last ELSE fill]>>

\* keys the callers insert: two that differ in the last bit only, and one that
\* leaves the root on the other side
Keys == {Bytes(0, 0), Bytes(0, 1), Bytes(MaxByte, 2 ^ HIGHEST_BIT_POS)}

\* keys the callers look up: the keys they insert and one they never insert
GetKeys == Keys \cup {Bytes(MaxByte, MaxByte)}

\* values the callers use: the zero hash, a byte array, and a value that is
\* itself the hash of a node (the parent of two empty leaves)
Values == {ZERO_HASH, Bytes(1, 1), merge(ZERO_HASH, ZERO_HASH)}

\* the first n branches of a path
Prefix(path, n) == SubSeq(path, 1, n)

\* paths the callers hand to verify: the keys' paths, and paths that are
\* shorter (one branch short, and empty) and longer (one branch more) than the
\* tree is high
ShortPaths == {<<>>, Prefix(PathIter(Bytes(0, 1)), TREE_HEIGHT - 1)}
LongPaths == {PathIter(Bytes(0, 0)) \o <<Left>>}
Paths == {PathIter(k) : k \in Keys} \cup ShortPaths \cup LongPaths

\* the two path iterators, and what they have yielded before the first next()
Iters == {"a", "b"}
NoneYielded == [n \in Iters |-> <<>>]

\* a call record
Call(op, key, value, path, res, before) ==
    [op |-> op, key |-> key, value |-> value, path |-> path, res |-> res, before |-> before]

Init ==
    /\ root = compute_default_tree.root
    /\ cache = compute_default_tree.cache
    /\ written = [k \in Keys |-> ZERO_HASH]
    /\ targeted = {}
    /\ replaced = {}
    /\ ninserts = 0
    /\ ret = Call("compute_default_tree", ZERO_HASH, ZERO_HASH, <<>>, Ok(<<>>), ZERO_HASH)
    /\ iter = [n \in Iters |-> PathIter_from(ZERO_HASH)]
    /\ yielded = NoneYielded

\* SparseMerkleTree::compute_default_tree(): the caller drops the tree and
\* goes on with a new one
ComputeDefaultTree ==
    /\ root' = compute_default_tree.root
    /\ cache' = compute_default_tree.cache
    /\ written' = [k \in Keys |-> ZERO_HASH]
    /\ targeted' = {}
    /\ replaced' = {}
    /\ ninserts' = 0
    /\ ret' = Call("compute_default_tree", ZERO_HASH, ZERO_HASH, <<>>, Ok(<<>>), root)
    /\ UNCHANGED <<iter, yielded>>

\* tree.insert(&key, value)
Insert(key, value) ==
    /\ ninserts < MaxInserts
    /\ LET r == insert(tree, key, value)
       IN  /\ root' = r.root
           /\ cache' = r.cache
           /\ ret' = Call("insert", key, value, <<>>, r.res, root)
           /\ written' = IF IsOk(r.res) THEN [written EXCEPT ![key] = value] ELSE written
           /\ replaced' = IF IsOk(r.res) /\ written[key] # value /\ key \in targeted
                          THEN replaced \cup {<<key, written[key]>>}
                          ELSE replaced
    /\ targeted' = targeted \cup {key}
    /\ ninserts' = ninserts + 1
    /\ UNCHANGED <<iter, yielded>>

\* tree.get(&key)
Get(key) ==
    /\ ret' = Call("get", key, ZERO_HASH, <<>>, get(tree, key), root)
    /\ UNCHANGED <<root, cache, written, targeted, replaced, ninserts, iter, yielded>>

\* tree.verify(&value, &path)
Verify(value, path) ==
    /\ ret' = Call("verify", ZERO_HASH, value, path, verify(tree, value, path), root)
    /\ UNCHANGED <<root, cache, written, targeted, replaced, ninserts, iter, yielded>>

Next ==
    \/ ComputeDefaultTree
    \/ \E key \in Keys, value \in Values : Insert(key, value)
    \/ \E key \in GetKeys : Get(key)
    \/ \E value \in Values, path \in Paths : Verify(value, path)

Spec == Init /\ [][Next]_vars

\* the callers that build a tree and call insert and get on it, and never
\* verify (verify takes &self: it changes neither root nor cache)
NextInsertGet ==
    \/ ComputeDefaultTree
    \/ \E key \in Keys, value \in Values : Insert(key, value)
    \/ \E key \in GetKeys : Get(key)

SpecInsertGet == Init /\ [][NextInsertGet]_vars

(* ------------- trees built with new(root, cache) from any cache -------- *)
\* the cache without the entry of hash h
Without(c, h) == [x \in DOMAIN c \ {h} |-> c[x]]

\* a cache whose one entry is not the pair its key was merged from: ZERO_HASH
\* is its own left and right child
LoopCache == [h \in {ZERO_HASH} |-> <<ZERO_HASH, ZERO_HASH>>]

\* the default tree and the tree after one insert into it
DefaultTree == compute_default_tree
OneLeafTree ==
    LET r == insert(compute_default_tree, Bytes(0, 1), Bytes(1, 1))
    IN  new(r.root, r.cache)

\* the arguments the callers hand to new(): the root and cache of one of the
\* two trees above, complete or with any one entry of the cache missing; an
\* empty cache; and the cache that loops
NewTrees ==
    UNION {{t} \cup {new(t.root, Without(t.cache, h)) : h \in DOMAIN t.cache} :
               t \in {DefaultTree, OneLeafTree}}
    \cup {new(ZERO_HASH, EmptyCache), new(ZERO_HASH, LoopCache)}

\* keys, values and paths the callers use on these trees
NewKeys == {Bytes(0, 1), Bytes(MaxByte, 2 ^ HIGHEST_BIT_POS)}
NewValues == {ZERO_HASH, Bytes(1, 1)}
NewPaths == {PathIter(k) : k \in NewKeys}

InitNew ==
    /\ \E t \in NewTrees : root = t.root /\ cache = t.cache
    /\ written = [k \in Keys |-> ZERO_HASH]
    /\ targeted = {}
    /\ replaced = {}
    /\ ninserts = 0
    /\ ret = Call("new", ZERO_HASH, ZERO_HASH, <<>>, Ok(<<>>), ZERO_HASH)
    /\ iter = [n \in Iters |-> PathIter_from(ZERO_HASH)]
    /\ yielded = NoneYielded

\* SparseMerkleTree::new(root, cache): the caller drops the tree and goes on
\* with a new one
New(t) ==
    /\ root' = t.root
    /\ cache' = t.cache
    /\ written' = [k \in Keys |-> ZERO_HASH]
    /\ targeted' = {}
    /\ replaced' = {}
    /\ ninserts' = 0
    /\ ret' = Call("new", ZERO_HASH, ZERO_HASH, <<>>, Ok(<<>>), root)
    /\ UNCHANGED <<iter, yielded>>

NextNew ==
    \/ \E t \in NewTrees : New(t)
    \/ \E key \in NewKeys, value \in NewValues : Insert(key, value)
    \/ \E key \in GetKeys : Get(key)
    \/ \E value \in NewValues, path \in NewPaths : Verify(value, path)

SpecNew == InitNew /\ [][NextNew]_vars

(* ----------------------- path iterators, step by step ------------------ *)
\* every H256 there is
AllKeys == {<<"bytes", b>> : b \in [1..HashBytes -> 0..MaxByte]}

\* two iterators, each over any key; the tree is new(ZERO_HASH, empty cache)
InitPath ==
    /\ root = ZERO_HASH
    /\ cache = EmptyCache
    /\ written = [k \in Keys |-> ZERO_HASH]
    /\ targeted = {}
    /\ replaced = {}
    /\ ninserts = 0
    /\ ret = Call("new", ZERO_HASH, ZERO_HASH, <<>>, Ok(<<>>), ZERO_HASH)
    /\ \E ka, kb \in AllKeys :
          iter = [n \in Iters |-> PathIter_from(IF n = "a" THEN ka ELSE kb)]
    /\ yielded = NoneYielded

\* iterator n: next(); it is called until it has returned None twice
IterNext(n) ==
    /\ Len(yielded[n]) <= TREE_HEIGHT + 1
    /\ LET r == PathIter_next(iter[n])
       IN  /\ iter' = [iter EXCEPT ![n] = r.it]
           /\ yielded' = [yielded EXCEPT ![n] = Append(@, r.item)]
    /\ UNCHANGED <<root, cache, written, targeted, replaced, ninserts, ret>>

NextPath == \E n \in Iters : IterNext(n)

SpecPath == InitPath /\ [][NextPath]_vars

(* ------------------------ what the history says ----------------------- *)
\* the value of the latest insert of key, ZERO_HASH if there was none
Written(key) == IF key \in Keys THEN written[key] ELSE ZERO_HASH

\* the leaf the descent from the root along `path` ends at
LeafAt(t, path) == get_descent(t.cache, t.root, path, 1, <<>>).node

\* the key whose path differs from that of `key` in the i-th branch only
FlipBit(key, i) ==
    LET pos == (i - 1) \div ByteBits + 1
        weight == 2 ^ (HIGHEST_BIT_POS - ((i - 1) % ByteBits))
        byte == key[2][pos]
        flipped == IF (byte \div weight) % 2 = 1 THEN byte - weight ELSE byte + weight
    IN  <<"bytes", [key[2] EXCEPT ![pos] = flipped]>>

\* the keys the properties below range over: the callers' keys and every key whose
\* path leaves the path of one of them at some level, i.e. one key in every
\* subtree that hangs off an inserted path (with one byte of two bits these
\* are all the keys there are)
NearKeys == GetKeys \cup {FlipBit(k, i) : k \in Keys, i \in 1..TREE_HEIGHT}

\* the paths the properties below range over: those of NearKeys, and every
\* shorter path leading towards them
FullPaths == {PathIter(k) : k \in NearKeys}
ShorterPaths == {Prefix(p, n) : p \in FullPaths, n \in 0..(TREE_HEIGHT - 1)}

(* ------------------------------- claims ------------------------------- *)
\* the tree an insert leaves
After(r) == [root |-> r.root, cache |-> r.cache]

\* values the properties below hand to verify: the callers' values and the root
ProbeValues == Values \cup {root}

\* C1 (round-trip): in every tree reached from compute_default_tree() by
\* inserts, for every key k and every value v other than ZERO_HASH, when
\* insert(k, v) returns Ok, get(k) right after it returns Ok((v, Some(path)))
\* with a path of TREE_HEIGHT branches.
C1_RoundTrip ==
    \A k \in GetKeys, v \in Values \ {ZERO_HASH} :
        LET r == insert(tree, k, v)
            g == get(After(r), k)
        IN  IsOk(r.res) =>
                /\ IsOk(g)
                /\ g[2][1] = v
                /\ g[2][2] # None
                /\ Len(g[2][2][2]) = TREE_HEIGHT

\* a get after inserts at two keys returned the value inserted at its key,
\* with a path
C1_Witness ==
    /\ ret.op = "get"
    /\ ninserts = 2
    /\ Cardinality(targeted) = 2
    /\ ret.key \in targeted
    /\ Written(ret.key) # ZERO_HASH
    /\ ret.res = Ok(<<Written(ret.key), Some(PathIter(ret.key))>>)

\* C2 (proof soundness): in every tree reached by inserts, for every key
\* whose stored value v is not ZERO_HASH, get(k) returns Some(path) and
\* verify(v, path) returns Ok(true).
C2_ProofSound ==
    \A k \in NearKeys :
        LET g == get(tree, k)
        IN  Written(k) # ZERO_HASH =>
                /\ IsOk(g)
                /\ g[2][2] # None
                /\ verify(tree, g[2][1], g[2][2][2]) = Ok(TRUE)

\* verify was called with the stored value and the path of one of two keys
\* that hold a value, and returned Ok(true)
C2_Witness ==
    /\ ret.op = "verify"
    /\ Cardinality(targeted) = 2
    /\ \A k \in targeted : written[k] # ZERO_HASH
    /\ \E k \in targeted : ret.path = PathIter(k) /\ ret.value = written[k]
    /\ ret.res = Ok(TRUE)

\* C3 (mismatch rejection): in every tree reached by inserts, for every path
\* of TREE_HEIGHT branches and every value that differs from the leaf stored
\* at that path, verify(value, path) returns Ok(false).
C3_Mismatch ==
    \A path \in FullPaths, v \in ProbeValues :
        v # LeafAt(tree, path) => verify(tree, v, path) = Ok(FALSE)

\* verify was called with the value a key held before it was overwritten
\* (a stale value) and returned Ok(false)
C3_Witness ==
    /\ ret.op = "verify"
    /\ \E k \in targeted :
          /\ <<k, ret.value>> \in replaced
          /\ ret.path = PathIter(k)
          /\ written[k] # ZERO_HASH
    /\ ret.value # ZERO_HASH
    /\ ret.res = Ok(FALSE)

\* C4 (malformed proof rejection), as claimed: every call of verify with a
\* path that is not TREE_HEIGHT branches long, shorter or longer, returns
\* Ok(false).
C4_MalformedRejected ==
    (ret.op = "verify" /\ Len(ret.path) # TREE_HEIGHT) => ret.res = Ok(FALSE)

\* C5 (unset default): in every tree reached by inserts, for every key no
\* insert was called with, get(k) returns Ok((ZERO_HASH, None)).
C5_UnsetDefault ==
    \A k \in NearKeys \ targeted : get(tree, k) = Ok(<<ZERO_HASH, None>>)

\* get was called with a key no insert was called with, after non-zero
\* values were inserted at two other keys, and returned (ZERO_HASH, None)
C5_Witness ==
    /\ ret.op = "get"
    /\ Cardinality(targeted) = 2
    /\ \A k \in targeted : written[k] # ZERO_HASH
    /\ ret.key \notin targeted
    /\ ret.res = Ok(<<ZERO_HASH, None>>)

\* the leaf get(k) returns in tree t (the value part of its Ok)
Leaf(t, k) == get(t, k)[2][1]

\* C6 (value isolation): an insert of key k leaves the leaf get(k') returns
\* unchanged for every other key k'; and in every state the leaf get(k)
\* returns is the value of the latest insert of k, or ZERO_HASH if there was
\* none.
C6_Isolation ==
    /\ [](\A k \in NearKeys : IsOk(get(tree, k)) /\ Leaf(tree, k) = Written(k))
    /\ [][ret'.op = "insert" =>
            \A k \in NearKeys \ {ret'.key} : Leaf(tree', k) = Leaf(tree, k)]_vars

\* after inserts of two different non-zero values at the two keys that share
\* a parent, get of the first key returned its own value
C6_Witness ==
    /\ ret.op = "get"
    /\ targeted = {Bytes(0, 0), Bytes(0, 1)}
    /\ written[Bytes(0, 0)] = Bytes(1, 1)
    /\ written[Bytes(0, 1)] = merge(ZERO_HASH, ZERO_HASH)
    /\ ret.key = Bytes(0, 0)
    /\ ret.res = Ok(<<Bytes(1, 1), Some(PathIter(Bytes(0, 0)))>>)

\* C7 (no MissingKey): in every tree reached from compute_default_tree() by
\* inserts, get(k) returns Ok for every key, insert(k, v) returns Ok for
\* every key and value, and no insert or get made returned an error.
C7_NoMissingKey ==
    /\ \A k \in NearKeys : IsOk(get(tree, k))
    /\ \A k \in GetKeys, v \in Values : IsOk(insert(tree, k, v).res)
    /\ ret.op \in {"insert", "get"} => IsOk(ret.res)

\* the second of two inserts, on the right of the root after one on the
\* left, returned Ok
C7_Witness ==
    /\ ret.op = "insert"
    /\ ninserts = 2
    /\ targeted = {Bytes(0, 1), Bytes(MaxByte, 2 ^ HIGHEST_BIT_POS)}
    /\ ret.key = Bytes(MaxByte, 2 ^ HIGHEST_BIT_POS)
    /\ ret.before # compute_default_tree.root
    /\ ret.res = Ok(<<>>)

\* C8 (idempotent insert): in every tree reached by inserts, for every key
\* and value, insert(k, v) made twice in a row leaves the root the first one
\* left.
C8_Idempotent ==
    \A k \in GetKeys, v \in Values :
        LET r1 == insert(tree, k, v)
            r2 == insert(After(r1), k, v)
        IN  /\ IsOk(r1.res) => IsOk(r2.res)
            /\ r2.root = r1.root

\* the same insert of a non-zero value was made twice in a row and the second
\* one left the root as it was
C8_Witness ==
    /\ ret.op = "insert"
    /\ ninserts = 2
    /\ targeted = {ret.key}
    /\ replaced = {}
    /\ ret.value # ZERO_HASH
    /\ ret.res = Ok(<<>>)
    /\ ret.before = root
    /\ root # compute_default_tree.root

\* h_0 = ZERO_HASH, h_(i+1) = merge(h_i, h_i)
RECURSIVE SelfMerge(_)
SelfMerge(i) == IF i = 0 THEN ZERO_HASH ELSE merge(SelfMerge(i - 1), SelfMerge(i - 1))

\* C9 (default tree): the tree compute_default_tree() returns has the root
\* h_TREE_HEIGHT and a cache of exactly TREE_HEIGHT entries, h_(i+1) ->
\* (h_i, h_i) for each level i; so every call returns the same tree.
C9_DefaultTree ==
    ret.op = "compute_default_tree" =>
        /\ root = SelfMerge(TREE_HEIGHT)
        /\ Cardinality(DOMAIN cache) = TREE_HEIGHT
        /\ \A i \in 0..(TREE_HEIGHT - 1) :
              /\ SelfMerge(i + 1) \in DOMAIN cache
              /\ cache[SelfMerge(i + 1)] = <<SelfMerge(i), SelfMerge(i)>>

\* compute_default_tree() was called again, after inserts had changed the
\* root of the tree before
C9_Witness ==
    /\ ret.op = "compute_default_tree"
    /\ ret.before # ZERO_HASH
    /\ ret.before # root
    /\ root = SelfMerge(TREE_HEIGHT)

\* C10 (short path): in every tree reached by inserts, verify(value, path)
\* with a path of fewer than TREE_HEIGHT branches, the empty path included,
\* returns Ok(false) for every value.
C10_ShortPath ==
    /\ \A path \in ShorterPaths, v \in ProbeValues : verify(tree, v, path) = Ok(FALSE)
    /\ (ret.op = "verify" /\ Len(ret.path) < TREE_HEIGHT) => ret.res = Ok(FALSE)

\* verify was called with a path one branch short, after two inserts, with
\* the value stored below that path, and returned Ok(false)
C10_Witness ==
    /\ ret.op = "verify"
    /\ ninserts = 2
    /\ Len(ret.path) = TREE_HEIGHT - 1
    /\ ret.value # ZERO_HASH
    /\ ret.value = written[Bytes(0, 1)]
    /\ ret.res = Ok(FALSE)

\* C11 (cache consistency): in every tree reached from compute_default_tree()
\* by inserts, every cache entry h -> (left, right) has h = merge(left, right).
C11_CacheConsistent ==
    \A h \in DOMAIN cache : h = merge(cache[h][1], cache[h][2])

\* the second of two inserts of non-zero values, at a key on the right of the
\* root, returned Ok and the cache holds entries of both
C11_Witness ==
    /\ ret.op = "insert"
    /\ ninserts = 2
    /\ Cardinality(targeted) = 2
    /\ \A k \in targeted : written[k] # ZERO_HASH
    /\ ret.key = Bytes(MaxByte, 2 ^ HIGHEST_BIT_POS)
    /\ ret.res = Ok(<<>>)
    /\ Cardinality(DOMAIN cache) > 2 * TREE_HEIGHT

\* C12 (append-only cache): every insert leaves each cache entry that was
\* there before it in the cache, with the same (left, right) pair; every get
\* and every verify leaves the root and the cache as they were.
C12_AppendOnly ==
    /\ [][ret'.op = "insert" =>
            \A h \in DOMAIN cache : h \in DOMAIN cache' /\ cache'[h] = cache[h]]_vars
    /\ [][ret'.op \in {"get", "verify"} => root' = root /\ cache' = cache]_vars

\* insert(k, v) and then insert(k, ZERO_HASH): the second insert wrote under
\* hashes of the default tree only, all of them in the cache already, and the
\* entries the first insert added are still there
C12_Witness ==
    /\ ret.op = "insert"
    /\ ninserts = 2
    /\ ret.value = ZERO_HASH
    /\ replaced = {<<ret.key, Bytes(1, 1)>>}
    /\ ret.res = Ok(<<>>)
    /\ root = compute_default_tree.root
    /\ Cardinality(DOMAIN cache) = 2 * TREE_HEIGHT
    /\ \A h \in DOMAIN compute_default_tree.cache :
          h \in DOMAIN cache /\ cache[h] = compute_default_tree.cache[h]

\* C13 (get's path option): in every tree reached by inserts, get(k) returns
\* None as the path exactly when the leaf it returns is ZERO_HASH, and
\* otherwise Some(path) with path the TREE_HEIGHT branches of k itself; and
\* right after insert(k, ZERO_HASH), get(k) returns (ZERO_HASH, None).
C13_PathOption ==
    /\ \A k \in NearKeys :
          LET g == get(tree, k)
          IN  /\ IsOk(g)
              /\ (g[2][2] = None) <=> (g[2][1] = ZERO_HASH)
              /\ g[2][1] # ZERO_HASH =>
                    /\ g[2][2] = Some(PathIter(k))
                    /\ Len(PathIter(k)) = TREE_HEIGHT
    /\ \A k \in GetKeys :
          LET r == insert(tree, k, ZERO_HASH)
          IN  /\ IsOk(r.res)
              /\ get(new(r.root, r.cache), k) = Ok(<<ZERO_HASH, None>>)

\* get(k) returned (ZERO_HASH, None) after insert(k, v) with v not ZERO_HASH
\* and then insert(k, ZERO_HASH)
C13_Witness ==
    /\ ret.op = "get"
    /\ ninserts = 2
    /\ targeted = {ret.key}
    /\ written[ret.key] = ZERO_HASH
    /\ \E v \in Values \ {ZERO_HASH} : replaced = {<<ret.key, v>>}
    /\ ret.res = Ok(<<ZERO_HASH, None>>)

\* the root of the tree of height TREE_HEIGHT whose leaf at the path of key k
\* is map[k], and ZERO_HASH at every other path: the hash of the subtree
\* below `prefix`, each node the merge of its two children
RECURSIVE MapRoot(_, _)
MapRoot(map, prefix) ==
    IF \A k \in DOMAIN map :
           map[k] = ZERO_HASH \/ Prefix(PathIter(k), Len(prefix)) # prefix
    THEN SelfMerge(TREE_HEIGHT - Len(prefix))
    ELSE IF Len(prefix) = TREE_HEIGHT
         THEN map[CHOOSE k \in DOMAIN map : PathIter(k) = prefix]
         ELSE merge(MapRoot(map, Append(prefix, Left)), MapRoot(map, Append(prefix, Right)))

\* the root two inserts in a row leave
RootAfter2(t, k1, v1, k2, v2) ==
    LET r1 == insert(t, k1, v1)
    IN  insert(new(r1.root, r1.cache), k2, v2).root

\* C14 (history independence): in every tree reached by inserts the root is
\* a function of the key-to-value map the inserts have left, whatever their
\* order; from there, for distinct keys k1 and k2 and two different non-zero
\* values, insert(k1, v1) then insert(k2, v2) leaves the root that
\* insert(k2, v2) then insert(k1, v1) leaves; and where get(k) is ZERO_HASH,
\* insert(k, v) then insert(k, ZERO_HASH) leaves the root as it was.
C14_HistoryIndependent ==
    /\ root = MapRoot(written, <<>>)
    /\ \A k1, k2 \in Keys :
          k1 # k2 =>
              RootAfter2(tree, k1, Bytes(1, 1), k2, merge(ZERO_HASH, ZERO_HASH))
                  = RootAfter2(tree, k2, merge(ZERO_HASH, ZERO_HASH), k1, Bytes(1, 1))
    /\ \A k \in GetKeys, v \in Values \ {ZERO_HASH} :
          Leaf(tree, k) = ZERO_HASH => RootAfter2(tree, k, v, k, ZERO_HASH) = root

\* two inserts of different non-zero values at the two keys that share a
\* parent, the key on the right first, left a root that is not the default
\* one
C14_Witness ==
    /\ ret.op = "insert"
    /\ ninserts = 2
    /\ targeted = {Bytes(0, 0), Bytes(0, 1)}
    /\ ret.key = Bytes(0, 0)
    /\ written[Bytes(0, 0)] = Bytes(1, 1)
    /\ written[Bytes(0, 1)] = merge(ZERO_HASH, ZERO_HASH)
    /\ ret.res = Ok(<<>>)
    /\ root = RootAfter2(compute_default_tree, Bytes(0, 0), Bytes(1, 1),
                         Bytes(0, 1), merge(ZERO_HASH, ZERO_HASH))
    /\ root # compute_default_tree.root

\* C15 (failed insert is atomic): on every tree built with new(root, cache),
\* and every tree inserts make of it, an insert that returns
\* Err(MissingKey(_)) leaves the root and the cache exactly as they were.
C15_FailedInsertAtomic ==
    /\ [](\A k \in GetKeys, v \in Values :
            LET r == insert(tree, k, v)
            IN  IsErr(r.res) => r.root = root /\ r.cache = cache)
    /\ [][(ret'.op = "insert" /\ IsErr(ret'.res)) => root' = root /\ cache' = cache]_vars

\* on a tree with an entry missing, an insert returned Ok and the next one,
\* at another key, returned MissingKey of a hash below the root
C15_Witness ==
    /\ ret.op = "insert"
    /\ ninserts = 2
    /\ \E k \in targeted \ {ret.key} : written[k] # ZERO_HASH
    /\ IsErr(ret.res)
    /\ ret.res # Err(MissingKey(root))
    /\ root = ret.before
    /\ root \in DOMAIN cache

\* C16 (absence proof): in every tree reached by inserts, for every key whose
\* value is ZERO_HASH, never inserted or reset by insert(k, ZERO_HASH),
\* verify(ZERO_HASH, path) with the TREE_HEIGHT-branch path of the key returns
\* Ok(true).
C16_AbsenceProof ==
    \A k \in NearKeys :
        Written(k) = ZERO_HASH => verify(tree, ZERO_HASH, PathIter(k)) = Ok(TRUE)

\* verify(ZERO_HASH, path of a key never inserted) returned Ok(true) in a tree
\* where the key next to it, below the same parent, holds a value
C16_Witness ==
    /\ ret.op = "verify"
    /\ ret.value = ZERO_HASH
    /\ ret.path = PathIter(Bytes(0, 1))
    /\ targeted = {Bytes(0, 0)}
    /\ written[Bytes(0, 0)] # ZERO_HASH
    /\ root # compute_default_tree.root
    /\ ret.res = Ok(TRUE)

\* the key as one number of TREE_HEIGHT bits, its first byte the most
\* significant: the value of its first n bytes
RECURSIVE KeyNumber(_, _)
KeyNumber(path, n) ==
    IF n = 0 THEN 0 ELSE KeyNumber(path, n - 1) * (2 ^ ByteBits) + path[n]

\* bit i of the key, counted from 0 at the most significant bit of the first
\* byte to TREE_HEIGHT - 1 at the least significant bit of the last byte
KeyBit(path, i) == (KeyNumber(path, HashBytes) \div (2 ^ (TREE_HEIGHT - 1 - i))) % 2

\* the branch of a 1 bit and of a 0 bit
BranchOfBit(b) == IF b = 1 THEN Right ELSE Left

RECURSIVE NodeAt(_, _, _)
NodeAt(t, path, i) ==
    IF i = 0
    THEN t.root
    ELSE LET above == NodeAt(t, path, i - 1)
         IN  IF above \notin DOMAIN t.cache
             THEN above
             ELSE IF path[i] = Left THEN t.cache[above][1] ELSE t.cache[above][2]

\* the lookups, of the TREE_HEIGHT the descent makes, that find no entry
AbsentAt(t, path) == {i \in 0..(TREE_HEIGHT - 1) : NodeAt(t, path, i) \notin DOMAIN t.cache}

\* the first of them
FirstAbsent(t, path) ==
    NodeAt(t, path, CHOOSE i \in AbsentAt(t, path) : \A j \in AbsentAt(t, path) : i <= j)

\* C18 (MissingKey payload): on every tree built with new(root, cache), and
\* every tree inserts make of it, get(key) and insert(key, value) return
\* Err(MissingKey(h)) if and only if one of the TREE_HEIGHT lookups of the
\* descent along the key's path is of a hash that is no key of the cache, h
\* being the first such hash; otherwise they return Ok.
C18_MissingKeyPayload ==
    \A k \in NearKeys, v \in NewValues :
        LET path == PathIter(k)
            g == get(tree, k)
            r == insert(tree, k, v).res
        IN  IF AbsentAt(tree, path) = {}
            THEN IsOk(g) /\ r = Ok(<<>>)
            ELSE /\ g = Err(MissingKey(FirstAbsent(tree, path)))
                 /\ r = Err(MissingKey(FirstAbsent(tree, path)))

\* after an insert that returned Ok, get of another key returned MissingKey
\* of the hash of its last lookup, every hash above it being in the cache
C18_Witness ==
    /\ ret.op = "get"
    /\ ninserts > 0
    /\ \E k \in targeted \ {ret.key} : written[k] # ZERO_HASH
    /\ AbsentAt(tree, PathIter(ret.key)) = {TREE_HEIGHT - 1}
    /\ ret.res = Err(MissingKey(NodeAt(tree, PathIter(ret.key), TREE_HEIGHT - 1)))
    /\ ret.res # Err(MissingKey(root))

\* the other child of the node the descent along `path` leaves in its i-th
\* step (i from 1, the step at the root)
SiblingAt(t, path, i) ==
    LET above == t.cache[NodeAt(t, path, i - 1)]
    IN  IF path[i] = Left THEN above[2] ELSE above[1]

\* C19 (sibling stack discipline): on every tree built with new(root, cache),
\* complete or not, and every tree inserts make of it, no insert fails the
\* expect on its pop; and an insert whose descent completes has, at the end of
\* the descent, a stack of exactly TREE_HEIGHT siblings, the root-level one
\* first and the leaf-level one last, and an empty stack when it assigns the
\* root: it has popped one sibling for each of the TREE_HEIGHT branches.
C19_SiblingStack ==
    \A k \in GetKeys, v \in NewValues :
        LET path == PathIter(k)
            r == insert(tree, k, v)
        IN  /\ r.res[1] # "Panic"
            /\ IsOk(r.res) <=> AbsentAt(tree, path) = {}
            /\ IsOk(r.res) =>
                  /\ Len(r.pushed) = TREE_HEIGHT
                  /\ \A i \in 1..TREE_HEIGHT : r.pushed[i] = SiblingAt(tree, path, i)
                  /\ r.left = <<>>

\* an insert on the right of the root returned Ok on a tree that holds a leaf
\* on the left: its stack had the hash of the left subtree first, which is
\* not a hash of the default tree, and ZERO_HASH last
C19_Witness ==
    /\ ret.op = "insert"
    /\ ret.key = Bytes(MaxByte, 2 ^ HIGHEST_BIT_POS)
    /\ ret.res = Ok(<<>>)
    /\ LET r == insert(new(ret.before, cache), ret.key, ret.value)
       IN  /\ Len(r.pushed) = TREE_HEIGHT
           /\ r.pushed[1] \notin DOMAIN compute_default_tree.cache
           /\ r.pushed[1] # ZERO_HASH
           /\ r.pushed[TREE_HEIGHT] = ZERO_HASH
           /\ r.left = <<>>
           /\ r.root = root

====
